---- MODULE Spec2Model ----
(***************************************************************************)
(* Site Security Analyzer: the SSRF gate (validate_url_safe), the scan     *)
(* endpoint with its cache and task queue, and the Celery scan task.       *)
(*                                                                         *)
(* Text is modelled as a sequence of one-character strings, so that        *)
(* prefix tests, urlparse and hostname extraction are computed on the      *)
(* characters the way the Python code computes them.                       *)
(***************************************************************************)
EXTENDS Integers, Sequences, FiniteSets, TLC

VARIABLES
    input,            \* validate_url_safe: the raw URL and the getaddrinfo answer drawn for a call
    output,           \* validate_url_safe: what the call returned
    REDIS_AVAILABLE,  \* app.py: whether Redis answered the ping at start-up
    cache,            \* Redis: domain -> json text of a scan result (key "scan:<domain>")
    jobs,             \* the scans accepted so far: Celery tasks and synchronous scans, by number
    db,               \* the rows of table scans
    reply,            \* the last HTTP reply of /scan or /scan/status
    net,              \* the last call of SafeHTTPAdapter.send: its events in order
    auth              \* tables users and refresh_tokens (one account), the clock, and the history of the account

vars == <<input, output, REDIS_AVAILABLE, cache, jobs, db, reply, net, auth>>
scan_vars == <<REDIS_AVAILABLE, cache, jobs, db, reply, net, auth>>

(***************************************************************************)
(* Bounds of the model.                                                    *)
(***************************************************************************)
\* longest getaddrinfo answer (number of addresses returned for one name)
MaxAns == 2
\* scans accepted (queued or run synchronously) in one behaviour
MaxJobs == 2
\* the clock of the account model counts minutes and advances by TickMinutes
\* up to MaxNow
TickMinutes == 30
MaxNow == 90
\* successful logins (refresh tokens issued) and forgot-password requests
\* (reset tokens issued) in one behaviour
MaxLogins == 2
MaxResets == 1

(***************************************************************************)
(* Text helpers (Python str operations).                                   *)
(***************************************************************************)
MinOf(S) == CHOOSE x \in S : \A y \in S : x <= y
MaxOf(S) == CHOOSE x \in S : \A y \in S : x >= y

\* str.startswith(prefix)
startswith(s, p) == Len(s) >= Len(p) /\ SubSeq(s, 1, Len(p)) = p

\* least index >= from whose character is in cs, 0 when there is none (str.find, 1-based)
find(s, cs, from) ==
    LET I == {i \in from..Len(s) : s[i] \in cs}
    IN IF I = {} THEN 0 ELSE MinOf(I)

\* greatest index whose character is c, 0 when there is none (str.rfind, 1-based)
rfind(s, c) ==
    LET I == {i \in 1..Len(s) : s[i] = c}
    IN IF I = {} THEN 0 ELSE MaxOf(I)

\* c in s
contains(s, c) == \E i \in 1..Len(s) : s[i] = c

\* str.lower() on the model's alphabet (its only upper-case letter is A)
LowerChar(c) == IF c = "A" THEN "a" ELSE c
lower(s) == [i \in 1..Len(s) |-> LowerChar(s[i])]

S_http == <<"h", "t", "t", "p">>
S_https == <<"h", "t", "t", "p", "s">>
S_ftp == <<"f", "t", "p">>
SEP == <<":", "/", "/">>
HTTP_PFX == S_http \o SEP
HTTPS_PFX == S_https \o SEP
FTP_PFX == S_ftp \o SEP

(***************************************************************************)
(* urllib.parse.urlparse, as far as validate_url_safe and the scan use it: *)
(* the scheme, the netloc and the hostname property.                       *)
(***************************************************************************)
Letters == {"a", "b", "e", "f", "h", "p", "q", "s", "t", "A"}
Digits == {"8"}
SchemeChars == Letters \cup Digits \cup {"+", "-", "."}

\* urlsplit: scheme = text before the first ':' when it is made of scheme
\* characters and starts with a letter; netloc = text after '//' up to the
\* first of / ? #; a netloc with one bracket but not the other raises ValueError
urlparse(url) ==
    LET i == find(url, {":"}, 1)
        hasScheme == /\ i > 1
                     /\ url[1] \in Letters
                     /\ \A k \in 1..(i - 1) : url[k] \in SchemeChars
        scheme == IF hasScheme THEN lower(SubSeq(url, 1, i - 1)) ELSE <<>>
        rest == IF hasScheme THEN SubSeq(url, i + 1, Len(url)) ELSE url
        hasNet == startswith(rest, <<"/", "/">>)
        d == find(rest, {"/", "?", "#"}, 3)
        delim == IF d = 0 THEN Len(rest) + 1 ELSE d
        netloc == IF hasNet THEN SubSeq(rest, 3, delim - 1) ELSE <<>>
        after == IF hasNet THEN SubSeq(rest, delim, Len(rest)) ELSE rest
    IN [raises |-> hasNet /\ (contains(netloc, "[") # contains(netloc, "]")),
        scheme |-> scheme,
        netloc |-> netloc,
        path |-> after]

\* ParseResult.hostname: drop the userinfo up to the last '@', drop the port
\* after ':', lower-case; an empty host is None (modelled as the empty text,
\* which the callers test with "not hostname" alike)
hostname(netloc) ==
    LET a == rfind(netloc, "@")
        hostinfo == SubSeq(netloc, a + 1, Len(netloc))
        c == find(hostinfo, {":"}, 1)
        h == IF c = 0 THEN hostinfo ELSE SubSeq(hostinfo, 1, c - 1)
    IN lower(h)

(***************************************************************************)
(* Addresses and the ipaddress predicates the code tests.                  *)
(***************************************************************************)
\* what socket.getaddrinfo can return for a name: the address texts of the model
Addrs == {"93.184.216.34", "2606:4700::1", "10.0.0.1", "127.0.0.1",
          "169.254.169.254", "224.0.0.1", "240.0.0.1", "fe80::1%eth0"}

\* ip_str.split('%')[0]: the IPv6 zone identifier removed
StripZone(ip) == IF ip = "fe80::1%eth0" THEN "fe80::1" ELSE ip

\* ipaddress.ip_address(ip).is_private and the other properties, for the
\* addresses of the model
is_private(ip) == ip \in {"10.0.0.1", "127.0.0.1", "169.254.169.254", "240.0.0.1", "fe80::1"}
is_loopback(ip) == ip \in {"127.0.0.1"}
is_link_local(ip) == ip \in {"169.254.169.254", "fe80::1"}
is_multicast(ip) == ip \in {"224.0.0.1"}
is_reserved(ip) == ip \in {"240.0.0.1"}
IsIPv4(ip) == ip \in {"93.184.216.34", "10.0.0.1", "127.0.0.1", "169.254.169.254",
                      "224.0.0.1", "240.0.0.1"}
InMetadataNet(ip) == ip \in {"169.254.169.254"}
InLocalhostNet(ip) == ip \in {"127.0.0.1"}

\* a getaddrinfo outcome: socket.gaierror, or a non-empty list of addresses
GaiError == [ok |-> FALSE, ips |-> <<>>]
Resolutions ==
    {GaiError} \cup {[ok |-> TRUE, ips |-> s] : s \in UNION {[1..k -> Addrs] : k \in 1..MaxAns}}

(***************************************************************************)
(* validate_url_safe (app.py).                                             *)
(***************************************************************************)
NoError == "None"
BadHostChars == {"@", " ", "\n", "\r", "\t"}

\* a loop body that takes an address for valid only when it is an IPv4 address
AddrError_NoIPv6(ip) ==
    LET ip_str == StripZone(ip)
    IN IF ~IsIPv4(ip_str) THEN "Invalid IP address"
       ELSE IF is_private(ip_str) \/ is_loopback(ip_str) \/ is_link_local(ip_str)
               \/ is_multicast(ip_str) \/ is_reserved(ip_str)
       THEN "Access to private/internal addresses not allowed"
       ELSE NoError

\* the body of the loop over resolved_ips for one address: the error message
\* the address is rejected with, or NoError
AddrError(ip) ==
    LET ip_str == StripZone(ip)
    IN IF is_private(ip_str) \/ is_loopback(ip_str) \/ is_link_local(ip_str)
          \/ is_multicast(ip_str) \/ is_reserved(ip_str)
       THEN "Access to private/internal addresses not allowed"
       ELSE IF IsIPv4(ip_str) /\ InMetadataNet(ip_str)
       THEN "Access to cloud metadata services not allowed"
       ELSE IF IsIPv4(ip_str) /\ InLocalhostNet(ip_str)
       THEN "Access to localhost not allowed"
       ELSE NoError

\* a loop that tests the first resolved address only
CheckResolved_FirstOnly(ips) == AddrError(ips[1])

\* for ip_tuple in resolved_ips: the first address with an error ends the loop
RECURSIVE CheckResolved(_)
CheckResolved(ips) ==
    IF ips = <<>> THEN NoError
    ELSE IF AddrError(Head(ips)) # NoError THEN AddrError(Head(ips))
    ELSE CheckResolved(Tail(ips))

\* (is_valid, normalized_url, error_message), and in lookups the names handed
\* to socket.getaddrinfo during the call; ans is what getaddrinfo answers
validate_url_safe(raw, ans) ==
    LET url == IF startswith(raw, HTTP_PFX) \/ startswith(raw, HTTPS_PFX)
               THEN raw ELSE HTTP_PFX \o raw
        parsed == urlparse(url)
        host == hostname(parsed.netloc)
        Reject(msg, looked) ==
            [valid |-> FALSE, url |-> url, error |-> msg, lookups |-> looked]
    IN IF parsed.raises THEN Reject("Invalid URL format", <<>>)
       ELSE IF parsed.scheme \notin {S_http, S_https}
       THEN Reject("Only HTTP/HTTPS protocols allowed", <<>>)
       ELSE IF host = <<>> THEN Reject("Invalid hostname", <<>>)
       ELSE IF \E c \in BadHostChars : contains(host, c)
       THEN Reject("Invalid characters in hostname", <<>>)
       ELSE IF ~ans.ok THEN Reject("Cannot resolve hostname", <<host>>)
       ELSE IF CheckResolved(ans.ips) # NoError
       THEN Reject(CheckResolved(ans.ips), <<host>>)
       ELSE [valid |-> TRUE, url |-> url, error |-> NoError, lookups |-> <<host>>]

(***************************************************************************)
(* Raw URLs submitted by callers: scheme prefix, userinfo, host, port and  *)
(* path/query parts put together in every combination.                     *)
(***************************************************************************)
RawPrefixes == {<<>>, HTTP_PFX, HTTPS_PFX, FTP_PFX}
RawUserinfos == {<<>>, <<"e", "@">>}
RawHosts == {<<>>, <<"a">>, <<"A">>, <<"b">>, <<"a", " ", "b">>, <<"[", "a">>}
RawPorts == {<<>>, <<":", "8">>}
RawTails == {<<>>, <<"/", "p">>, <<"?", "q">>}
RawURLs ==
    {p \o u \o h \o n \o t :
        p \in RawPrefixes, u \in RawUserinfos, h \in RawHosts, n \in RawPorts, t \in RawTails}

(***************************************************************************)
(* Response headers.  A header value is a sequence of tokens (the words of *)
(* the value); an absent header has the empty value, which is what         *)
(* headers.get(name, '') gives.                                            *)
(***************************************************************************)
HeaderNames == {"Strict-Transport-Security", "Content-Security-Policy", "X-Frame-Options",
                "X-Content-Type-Options", "Referrer-Policy", "Permissions-Policy",
                "Feature-Policy", "X-XSS-Protection", "Server", "X-Powered-By", "Set-Cookie"}

NoHeaders == [h \in HeaderNames |-> <<>>]

\* substring in value, for a substring that is one of the value's tokens
has(value, token) == \E i \in 1..Len(value) : value[i] = token

\* re.search(r'max-age=(\d+)', hsts): the number of the first max-age token
\* with digits, 0 when there is none
MaxAgeTokens == {"max-age=0", "max-age=300", "max-age=31536000", "max-age=63072000"}
MaxAgeNumber(token) ==
    CASE token = "max-age=0" -> 0
      [] token = "max-age=300" -> 300
      [] token = "max-age=31536000" -> 31536000
      [] token = "max-age=63072000" -> 63072000
      [] OTHER -> 0
max_age_of(hsts) ==
    LET I == {i \in 1..Len(hsts) : hsts[i] \in MaxAgeTokens}
    IN IF I = {} THEN 0 ELSE MaxAgeNumber(hsts[MinOf(I)])

\* ' * ' in csp or csp.endswith(' *'): a wildcard token with a blank on both
\* sides (the ';' token is written directly after the token before it), or a
\* wildcard token ending a policy of more than one token
has_bare_wildcard(csp) ==
    \/ \E i \in 2..(Len(csp) - 1) : csp[i] = "*" /\ csp[i + 1] # ";"
    \/ Len(csp) >= 2 /\ csp[Len(csp)] = "*"

\* str.upper() / str.lower() of the one-token values of the model
upper(value) ==
    [i \in 1..Len(value) |->
        CASE value[i] = "deny" -> "DENY"
          [] value[i] = "sameorigin" -> "SAMEORIGIN"
          [] value[i] = "allowall" -> "ALLOWALL"
          [] OTHER -> value[i]]
lower_value(value) ==
    [i \in 1..Len(value) |->
        CASE value[i] = "NoSniff" -> "nosniff"
          [] OTHER -> value[i]]

\* any(p in rp for p in secure_policies): the tokens that hold one of the
\* secure policy names as a substring
SecurePolicyTokens == {"no-referrer", "same-origin", "strict-origin",
                       "strict-origin-when-cross-origin", "no-referrer-when-downgrade"}
has_secure_policy(rp) == \E i \in 1..Len(rp) : rp[i] \in SecurePolicyTokens

Finding(present, score, severity) ==
    [present |-> present, score |-> score, severity |-> severity]

\* analyze_security_headers: findings by key; url is the final URL
analyze_security_headers(headers, url) ==
    LET is_https == startswith(url, HTTPS_PFX)
        hsts == headers["Strict-Transport-Security"]
        max_age == max_age_of(hsts)
        has_subdomains == has(hsts, "includeSubDomains")
        csp == headers["Content-Security-Policy"]
        issues == has(csp, "'unsafe-inline'") \/ has(csp, "'unsafe-eval'")
                  \/ has_bare_wildcard(csp)
        xfo == upper(headers["X-Frame-Options"])
        xcto == lower_value(headers["X-Content-Type-Options"])
        rp == headers["Referrer-Policy"]
        pp == IF headers["Permissions-Policy"] # <<>> THEN headers["Permissions-Policy"]
              ELSE headers["Feature-Policy"]
        xxp == headers["X-XSS-Protection"]
        always ==
            [https |-> IF is_https THEN Finding(TRUE, 15, "pass")
                       ELSE Finding(FALSE, 0, "critical"),
             hsts |-> IF hsts = <<>> THEN Finding(FALSE, 0, "critical")
                      ELSE IF max_age >= 31536000 /\ has_subdomains THEN Finding(TRUE, 15, "pass")
                      ELSE IF max_age >= 31536000 THEN Finding(TRUE, 10, "info")
                      ELSE IF max_age > 0 THEN Finding(TRUE, 5, "warning")
                      ELSE Finding(TRUE, 0, "fail"),
             csp |-> IF csp = <<>> THEN Finding(FALSE, 0, "high")
                     ELSE IF ~issues THEN Finding(TRUE, 20, "pass")
                     ELSE Finding(TRUE, 10, "warning"),
             x_frame_options |->
                     IF xfo \in {<<"DENY">>, <<"SAMEORIGIN">>} THEN Finding(TRUE, 10, "pass")
                     ELSE IF xfo # <<>> THEN Finding(TRUE, 5, "warning")
                     ELSE Finding(FALSE, 0, "medium"),
             x_content_type_options |->
                     IF xcto = <<"nosniff">> THEN Finding(TRUE, 5, "pass")
                     ELSE Finding(FALSE, 0, "medium"),
             referrer_policy |->
                     Finding(rp # <<>>,
                             IF has_secure_policy(rp) THEN 5 ELSE 0,
                             IF rp # <<>> THEN "pass" ELSE "low"),
             permissions_policy |->
                     IF pp # <<>> THEN Finding(TRUE, 5, "pass") ELSE Finding(FALSE, 0, "low")]
        xss == IF xxp = <<"0">> THEN [x_xss_protection |-> Finding(TRUE, 0, "info")]
               ELSE IF xxp # <<>> THEN [x_xss_protection |-> Finding(TRUE, 0 - 5, "warning")]
               ELSE <<>>
        server == IF headers["Server"] # <<>>
                  THEN [server_disclosure |-> Finding(TRUE, 0 - 3, "info")] ELSE <<>>
        xpb == IF headers["X-Powered-By"] # <<>>
               THEN [x_powered_by |-> Finding(TRUE, 0 - 3, "info")] ELSE <<>>
    IN always @@ xss @@ server @@ xpb

\* analyze_cookies: one flat dict, without a severity when no cookie is set
analyze_cookies(headers) ==
    LET set_cookie == headers["Set-Cookie"]
        issues == ~has(set_cookie, "Secure") \/ ~has(set_cookie, "HttpOnly")
                  \/ ~has(set_cookie, "SameSite")
    IN IF set_cookie = <<>> THEN [present |-> FALSE, score |-> 0]
       ELSE [present |-> TRUE,
             score |-> IF issues THEN 0 ELSE 5,
             severity |-> IF issues THEN "warning" ELSE "pass"]

\* what one TXT lookup of check_dns_records ends in
TxtOutcomes == {"found", "absent", "failed"}

\* a check in which the failure of the SPF lookup ends both lookups
check_dns_records_FailureEndsBoth(spf, dmarc) ==
    [spf |-> IF spf = "found" THEN Finding(TRUE, 5, "pass") ELSE Finding(FALSE, 0, "medium"),
     dmarc |-> IF dmarc = "found" /\ spf # "failed" THEN Finding(TRUE, 5, "pass")
               ELSE Finding(FALSE, 0, "medium")]

\* check_dns_records: spf and dmarc are the outcomes of the two TXT lookups;
\* an exception of a lookup is caught and reported like an absent record
check_dns_records(spf, dmarc) ==
    LET F(o) == IF o = "found" THEN Finding(TRUE, 5, "pass") ELSE Finding(FALSE, 0, "medium")
    IN [spf |-> F(spf), dmarc |-> F(dmarc)]

\* the items of a findings dict for calculate_overall_score: for each key,
\* whether its value is a dict holding a 'score', and that score
ScoreItems(findings) ==
    [k \in DOMAIN findings |-> [counts |-> TRUE, score |-> findings[k].score]]
\* the keys of the flat cookie dict hold booleans, numbers and strings
FlatItems(d) ==
    [k \in DOMAIN d |-> [counts |-> FALSE, score |-> 0]]

RECURSIVE SumScores(_, _)
SumScores(items, keys) ==
    IF keys = {} THEN 0
    ELSE LET k == CHOOSE x \in keys : TRUE
         IN (IF items[k].counts THEN items[k].score ELSE 0) + SumScores(items, keys \ {k})

\* a score that is not brought into the range 0..100
calculate_overall_score_Unclamped(items) == 50 + SumScores(items, DOMAIN items)
\* a score brought into the range 0..100 by wrapping around
calculate_overall_score_Wrapped(items) == (50 + SumScores(items, DOMAIN items)) % 101

\* calculate_overall_score over {**header_findings, **cookie_findings, **dns_findings}
\* (a later dict of the merge overrides an earlier one)
calculate_overall_score(items) ==
    LET total_score == 50 + SumScores(items, DOMAIN items)
        capped == IF total_score > 100 THEN 100 ELSE total_score
    IN IF capped < 0 THEN 0 ELSE capped

merged_findings(header_findings, cookie_findings, dns_findings) ==
    ScoreItems(dns_findings) @@ FlatItems(cookie_findings) @@ ScoreItems(header_findings)

\* dict.get(key, {}).get('present', False)
present_of(findings, key) == IF key \in DOMAIN findings THEN findings[key].present ELSE FALSE

flat_report_of(header_findings, dns_findings) ==
    [https |-> present_of(header_findings, "https"),
     hsts |-> present_of(header_findings, "hsts"),
     content_security_policy |-> present_of(header_findings, "csp"),
     x_frame_options |-> present_of(header_findings, "x_frame_options"),
     x_content_type_options |-> present_of(header_findings, "x_content_type_options"),
     referrer_policy |-> present_of(header_findings, "referrer_policy"),
     permissions_policy |-> present_of(header_findings, "permissions_policy"),
     server_header |-> present_of(header_findings, "server_disclosure"),
     dns_spf |-> present_of(dns_findings, "spf"),
     dns_dmarc |-> present_of(dns_findings, "dmarc")]

grade_of(score) ==
    IF score >= 80 THEN "Excellent"
    ELSE IF score >= 60 THEN "Good"
    ELSE IF score >= 40 THEN "Moderate"
    ELSE "Critical"

(***************************************************************************)
(* The scan endpoint, the Celery task and what they share.                 *)
(***************************************************************************)
\* the URLs posted to /scan
ScanURLs == {<<>>, <<"a">>, HTTPS_PFX \o <<"a", "/", "p">>, <<"b">>}
\* the Location a redirect response names
RedirectTargets == {HTTPS_PFX \o <<"b", "/">>}

\* celery_tasks.py: scan configuration (defaults of the environment variables)
MAX_RESPONSE_SIZE == 10 * 1024 * 1024
MAX_REDIRECTS == 3

Hardened ==
    [NoHeaders EXCEPT
        !["Strict-Transport-Security"] = <<"max-age=31536000", ";", "includeSubDomains">>,
        !["Content-Security-Policy"] = <<"default-src", "'self'">>,
        !["X-Frame-Options"] = <<"deny">>,
        !["X-Content-Type-Options"] = <<"nosniff">>,
        !["Referrer-Policy"] = <<"no-referrer">>,
        !["Server"] = <<"nginx">>,
        !["Set-Cookie"] = <<"sid=1", ";", "Secure", ";", "HttpOnly", ";", "SameSite">>]
HeaderProfiles == {NoHeaders, Hardened}

\* the Content-Length header of a response: absent, a number, or not a number
ContentLengths ==
    {[kind |-> "absent", n |-> 0], [kind |-> "int", n |-> 1000],
     [kind |-> "int", n |-> MAX_RESPONSE_SIZE + 1], [kind |-> "bad", n |-> 0]}
\* the bytes the body really holds
BodySizes == {1000, MAX_RESPONSE_SIZE + 1}
NoResponse == [none |-> TRUE]
\* a response with a Content-Length carries that many bytes; one without (chunked)
\* carries any of BodySizes; stalls: the server stops sending in the middle of
\* the body and the read of the body runs into the read timeout
Responses ==
    {r \in [headers : HeaderProfiles, content_length : ContentLengths, body : BodySizes,
              stalls : BOOLEAN] :
        /\ r.content_length.kind = "int" => r.body = r.content_length.n
        /\ r.content_length.kind = "bad" => r.body = 1000
        /\ r.stalls => (r.content_length.kind = "absent" /\ r.body = 1000
                         /\ r.headers = NoHeaders)}

\* exceptions HTTPAdapter.send raises, and their classes in requests.exceptions
\* ("ConnectionError:ReadTimeoutError" is the ConnectionError the adapter raises
\* for the MaxRetryError of a read timeout while it waits for the response)
SendExceptions == {"ConnectTimeout", "SSLError", "ConnectionError", "ChunkedEncodingError",
                   "ConnectionError:ReadTimeoutError"}
IsTimeout(exc) == exc \in {"ConnectTimeout", "ReadTimeout"}
IsSSLError(exc) == exc \in {"SSLError"}
IsConnectionError(exc) ==
    exc \in {"ConnectionError", "ConnectTimeout", "SSLError", "ConnectionError:ReadTimeoutError"}

\* what the network does with one request that was sent
SendOutcomes ==
    {[kind |-> "exc", exc |-> e, target |-> <<>>, response |-> NoResponse] : e \in SendExceptions}
    \cup {[kind |-> "redirect", exc |-> "", target |-> t, response |-> NoResponse] :
            t \in RedirectTargets}
    \cup {[kind |-> "final", exc |-> "", target |-> <<>>, response |-> r] : r \in Responses}

\* what getaddrinfo answers for the host of a scan
ScanResolutions ==
    {GaiError,
     [ok |-> TRUE, ips |-> <<"93.184.216.34">>],
     [ok |-> TRUE, ips |-> <<"93.184.216.34", "127.0.0.1">>]}

NoResult == [none |-> TRUE]
NoBody == [none |-> TRUE]

\* json.dumps / json.loads of a result: text tagged as JSON, and its content back
json_dumps(value) == <<"json", value>>
json_loads(text) == text[2]

(***************************************************************************)
(* SafeHTTPAdapter.send and session.get (celery_tasks.py).                 *)
(***************************************************************************)
\* the test of SafeHTTPAdapter.send on one resolved address
AdapterBlocked(ip) ==
    LET ip_str == StripZone(ip)
    IN is_private(ip_str) \/ is_loopback(ip_str) \/ is_link_local(ip_str)
       \/ is_multicast(ip_str) \/ is_reserved(ip_str)

\* an adapter that resolves the host and tests no address
AdapterVerdict_Unchecked(ans) == IF ~ans.ok THEN "gaierror" ELSE "safe"

\* the verdict of SafeHTTPAdapter.send on the answer of getaddrinfo
AdapterVerdict(ans) ==
    IF ~ans.ok THEN "gaierror"
    ELSE IF \E i \in 1..Len(ans.ips) : AdapterBlocked(ans.ips[i]) THEN "blocked"
    ELSE "safe"

\* Retry(total=2, ...) of create_safe_session: urllib3 counts every failed
\* attempt of a request against total (a connection that fails or times out,
\* a TLS failure, a read timeout of an allowed method) and sends the request
\* again until total is used up; only then the adapter raises
RETRY_TOTAL == 2
RetriedErrors == {"ConnectTimeout", "SSLError", "ConnectionError",
                  "ConnectionError:ReadTimeoutError"}
attempted(sent, host, exc) ==
    IF exc \in RetriedErrors
    THEN sent \o [n \in 1..RETRY_TOTAL |-> <<"retry", host, "sent">>]
    ELSE sent

\* session.get raises exc at the request for cur
get_raised(exc, detail, cur, events) ==
    [exc |-> exc, detail |-> detail, response |-> NoResponse, url |-> cur, events |-> events]

\* session.get(url, allow_redirects=True) on a session of create_safe_session.
\* hops[i] is what the network does at the i-th request: the answer of
\* getaddrinfo for its host and the outcome of the request if it is sent.
\* Every request, the first and each redirect, passes SafeHTTPAdapter.send
RECURSIVE session_get(_, _, _, _)
session_get(cur, hops, i, events) ==
    LET host == hostname(urlparse(cur).netloc)
        verdict == IF host = <<>> THEN "safe" ELSE AdapterVerdict(hops[i].ans)
        checked == IF host = <<>> THEN events
                   ELSE Append(events, <<"resolve", host, verdict>>)
        sent == Append(checked, <<"request", host, "sent">>)
        o == hops[i].o
    IN IF verdict = "gaierror"
       THEN get_raised("ConnectionError", "DNS resolution failed", cur, checked)
       ELSE IF verdict = "blocked"
       THEN get_raised("ConnectionError", "Blocked private IP in redirect", cur, checked)
       ELSE IF o.kind = "exc"
       THEN get_raised(o.exc, o.exc, cur, attempted(sent, host, o.exc))
       ELSE IF o.kind = "redirect"
       THEN IF i - 1 >= MAX_REDIRECTS
            THEN get_raised("TooManyRedirects", "Exceeded redirects", cur, sent)
            ELSE session_get(o.target, hops, i + 1, sent)
       ELSE [exc |-> "", detail |-> "", response |-> o.response, url |-> cur,
             events |-> sent]

\* what getaddrinfo answers for the host of a hop: an error, one address, or
\* a public address followed by another address
HopAnswers ==
    {GaiError} \cup {[ok |-> TRUE, ips |-> <<ip>>] : ip \in Addrs}
    \cup {[ok |-> TRUE, ips |-> <<"93.184.216.34", ip>>] : ip \in Addrs}

\* the behaviours of the network during one session.get: redirects answered
\* from safe addresses, then a last hop of any kind
Hops == [ans : HopAnswers, o : SendOutcomes]
HopTraces ==
    {[i \in 1..(n + 1) |-> IF i <= n THEN redirect ELSE last] :
        n \in 0..MAX_REDIRECTS,
        redirect \in {h \in Hops : h.o.kind = "redirect" /\ h.ans \in ScanResolutions
                                   /\ h.ans.ok
                                   /\ \A k \in 1..Len(h.ans.ips) : ~AdapterBlocked(h.ans.ips[k])},
        last \in {h \in Hops : h.o.kind # "redirect"}}
    \cup {[i \in 1..(MAX_REDIRECTS + 1) |-> redirect] :
            redirect \in {h \in Hops : h.o.kind = "redirect" /\ h.ans \in ScanResolutions
                                       /\ h.ans.ok
                                       /\ \A k \in 1..Len(h.ans.ips) : ~AdapterBlocked(h.ans.ips[k])}}

(***************************************************************************)
(* perform_security_scan (celery_tasks.py) and the synchronous scan of     *)
(* app.py as functions of the URL and of what the world outside does       *)
(* during the scan: nb.backend_ok (the first update_state succeeds),       *)
(* nb.hops (the network during session.get), nb.spf and nb.dmarc (the TXT  *)
(* lookups), nb.redis_ok (setex succeeds), nb.db_ok (the insert succeeds). *)
(* An outcome tells how the scan ended (state and value for a task, code   *)
(* and value for the synchronous scan), the cache entries it wrote, the    *)
(* rows it inserted and the network events it caused.                      *)
(***************************************************************************)
\* the except clauses of perform_security_scan, in their order
classify(exc) ==
    IF IsTimeout(exc) THEN "Request timeout - site took too long to respond"
    ELSE IF IsSSLError(exc) THEN "SSL/TLS error"
    ELSE IF IsConnectionError(exc) THEN "Connection error"
    ELSE "Scan failed"

\* an error dict that also carries a score
ErrorDict_WithScore(url, domain, class, detail) ==
    [error |-> <<class, detail>>, url |-> url, domain |-> domain, score |-> 0]

\* the dict the early returns and the except clauses of the task return
ErrorDict(url, domain, class, detail) ==
    [error |-> <<class, detail>>, url |-> url, domain |-> domain]

\* the task function returns value: Celery stores it with state SUCCESS
Returned(value, writes, rows, events) ==
    [state |-> "SUCCESS", code |-> 0, value |-> value, writes |-> writes, rows |-> rows,
     events |-> events]

\* an exception reaches the except clauses of the task: it returns an error dict
Caught(url, domain, exc, detail, events) ==
    Returned(ErrorDict(url, domain, classify(exc), IF IsTimeout(exc) THEN "" ELSE detail),
             <<>>, <<>>, events)

\* the result dict both scans build (the timing fields and the status code are
\* left out)
result_dict(url, domain, final_url, header_findings, cookie_findings, dns_findings, score) ==
    [url |-> url,
     domain |-> domain,
     score |-> score,
     report |-> flat_report_of(header_findings, dns_findings),
     findings |-> [headers |-> header_findings, cookies |-> cookie_findings,
                   dns |-> dns_findings],
     grade |-> grade_of(score),
     final_url |-> final_url]

scored(url, domain, final_url, header_findings, cookie_findings, dns_findings) ==
    result_dict(url, domain, final_url, header_findings, cookie_findings, dns_findings,
                calculate_overall_score(
                    merged_findings(header_findings, cookie_findings, dns_findings)))

BuildResult(url, domain, response, final_url, spf, dmarc) ==
    scored(url, domain, final_url,
           analyze_security_headers(response.headers, final_url),
           analyze_cookies(response.headers),
           check_dns_records(spf, dmarc))

\* the row both scans insert into table scans
ScanRow(result) ==
    [url |-> result.url, domain |-> result.domain, score |-> result.score,
     report |-> result.report]

\* a scan that never tests the declared Content-Length
declared_too_large_Never(cl) == FALSE
\* the test of the declared Content-Length: a value that is no number makes
\* int() raise before the comparison
declared_too_large(cl) == cl.kind = "int" /\ cl.n > MAX_RESPONSE_SIZE

\* a cache entry stored under the URL of the scan
cache_writes_ByUrl(domain, result) == << <<result.url, json_dumps(result)>> >>
\* redis_client.setex(f"scan:{domain}", 3600, json.dumps(result))
cache_writes(domain, result) == << <<domain, json_dumps(result)>> >>

\* an end of the task at which a failed insert reaches "except Exception"
task_store_SaveRaises(result, nb, events) ==
    IF ~nb.redis_ok \/ ~nb.db_ok
    THEN Caught(result.url, result.domain, "Exception", "save failed", events)
    ELSE Returned(result, cache_writes(result.domain, result), <<ScanRow(result)>>, events)

\* the end of perform_security_scan: the cache entry, the row, the return.  A
\* Redis error reaches "except Exception"; a failed insert is noted in db_error
task_store(result, nb, events) ==
    IF ~nb.redis_ok
    THEN Caught(result.url, result.domain, "RedisError", "Redis error", events)
    ELSE IF nb.db_ok
    THEN Returned(result, cache_writes(result.domain, result), <<ScanRow(result)>>, events)
    ELSE Returned([db_error |-> "insert failed"] @@ result,
                  cache_writes(result.domain, result), <<>>, events)

\* perform_security_scan from the response on
task_analyse(url, domain, g, nb, read) ==
    IF g.response.content_length.kind = "bad"
    THEN Caught(url, domain, "ValueError", "invalid literal for int()", g.events)
    ELSE IF declared_too_large(g.response.content_length)
    THEN Returned(ErrorDict(url, domain, "Response too large", ""), <<>>, <<>>, g.events)
    ELSE IF g.response.stalls
    THEN Caught(url, domain, "urllib3.ReadTimeoutError", "Read timed out.", read)
    ELSE IF MinOf({g.response.body, MAX_RESPONSE_SIZE}) >= MAX_RESPONSE_SIZE
    THEN Returned(ErrorDict(url, domain, "Response too large", ""), <<>>, <<>>, read)
    ELSE task_store(BuildResult(url, domain, g.response, g.url, nb.spf, nb.dmarc), nb, read)

\* the read of the body of the response g
body_read(g) == Append(g.events, <<"read", hostname(urlparse(g.url).netloc), "body">>)

\* perform_security_scan from session.get on
task_fetched(url, domain, g, nb) ==
    IF g.exc # "" THEN Caught(url, domain, g.exc, g.detail, g.events)
    ELSE task_analyse(url, domain, g, nb, body_read(g))

\* perform_security_scan after its first update_state
task_run(url, domain, nb) ==
    task_fetched(url, domain, session_get(url, nb.hops, 1, <<>>), nb)

\* the first update_state raised: the except clause reads domain before it is
\* assigned, and the task fails with UnboundLocalError
Unbound ==
    [state |-> "FAILURE", code |-> 0, value |-> [exc |-> "UnboundLocalError"],
     writes |-> <<>>, rows |-> <<>>, events |-> <<>>]

perform_security_scan(url, nb) ==
    IF nb.backend_ok THEN task_run(url, hostname(urlparse(url).netloc), nb) ELSE Unbound

\* the synchronous fallback of scan: every exception answers 500 "Scan failed"
sync_store(result, nb, events) ==
    [state |-> "SYNC", code |-> 200, value |-> result, writes |-> <<>>,
     rows |-> IF nb.db_ok THEN <<ScanRow(result)>> ELSE <<>>, events |-> events]

sync_fetched(url, domain, g, nb) ==
    IF g.exc # ""
    THEN [state |-> "SYNC", code |-> 500, value |-> [error |-> <<"Scan failed", g.detail>>],
          writes |-> <<>>, rows |-> <<>>, events |-> g.events]
    ELSE IF g.response.stalls
    THEN [state |-> "SYNC", code |-> 500, value |-> [error |-> <<"Scan failed", "Read timed out.">>],
          writes |-> <<>>, rows |-> <<>>, events |-> body_read(g)]
    ELSE sync_store(BuildResult(url, domain, g.response, g.url, nb.spf, nb.dmarc), nb,
                    body_read(g))

sync_scan(url, domain, nb) ==
    sync_fetched(url, domain, session_get(url, nb.hops, 1, <<>>), nb)

\* GET /scan/status/<task_id> (app.py scan_status) on a task in this state
scan_status(task) ==
    IF task.state \in {"SUCCESS", "FAILURE"}
    THEN IF task.state = "SUCCESS"
         THEN [status |-> "complete", result |-> task.value]
         ELSE [status |-> "failed", error |-> task.value.exc]
    ELSE [status |-> "processing",
          progress |-> IF task.state = "PROGRESS" THEN task.progress ELSE 0]

\* what the world does during one scan
NetBehaviours ==
    [backend_ok : BOOLEAN, hops : HopTraces, spf : TxtOutcomes, dmarc : TxtOutcomes,
     redis_ok : BOOLEAN, db_ok : BOOLEAN]

(***************************************************************************)
(* The scans accepted by /scan: a queued Celery task or a synchronous      *)
(* scan.                                                                   *)
(***************************************************************************)
\* the behaviours the scans of the service meet: a response with a short body
\* and either header profile, a response declaring too long a body, a
\* timeout, a TLS error, a redirect to a host with a loopback address
PublicAnswer == [ok |-> TRUE, ips |-> <<"93.184.216.34">>]
FinalHop(headers, size) ==
    [ans |-> PublicAnswer,
     o |-> [kind |-> "final", exc |-> "", target |-> <<>>,
            response |-> [headers |-> headers,
                          content_length |-> IF size = 1000 THEN [kind |-> "absent", n |-> 0]
                                             ELSE [kind |-> "int", n |-> size],
                          body |-> size, stalls |-> FALSE]]]
DirectHops ==
    {<<FinalHop(h, 1000)>> : h \in HeaderProfiles}
    \cup {<<FinalHop(NoHeaders, MAX_RESPONSE_SIZE + 1)>>}
    \cup {<<[ans |-> PublicAnswer,
             o |-> [kind |-> "exc", exc |-> e, target |-> <<>>, response |-> NoResponse]]>> :
            e \in {"ConnectTimeout", "SSLError"}}
    \cup {<<[ans |-> PublicAnswer,
             o |-> [kind |-> "redirect", exc |-> "", target |-> t, response |-> NoResponse]],
            [ans |-> [ok |-> TRUE, ips |-> <<"93.184.216.34", "127.0.0.1">>],
             o |-> [kind |-> "exc", exc |-> "ConnectTimeout", target |-> <<>>,
                    response |-> NoResponse]]>> : t \in RedirectTargets}
ScanNets ==
    {nb \in NetBehaviours : nb.backend_ok /\ nb.hops \in DirectHops
                            /\ nb.spf = "found" /\ nb.dmarc = "found"}

\* validate_url_safe, urlparse(url).hostname, perform_security_scan and the
\* synchronous scan on the requests and behaviours above, as tables (@@ <<>>
\* makes TLC compute a table once)
Validated ==
    [k \in ScanURLs \X ScanResolutions |-> validate_url_safe(k[1], k[2])] @@ <<>>
\* a cache addressed by the whole URL
DomainOf_ByUrl ==
    [url \in {Validated[k].url : k \in ScanURLs \X ScanResolutions} |-> url] @@ <<>>
\* urlparse(normalized_url).hostname, the name the cache is addressed by
DomainOf ==
    [url \in {Validated[k].url : k \in ScanURLs \X ScanResolutions} |->
        hostname(urlparse(url).netloc)] @@ <<>>
AcceptedURLs ==
    {Validated[k].url : k \in {x \in ScanURLs \X ScanResolutions : Validated[x].valid}}
TaskOutcome ==
    [k \in AcceptedURLs \X ScanNets |-> perform_security_scan(k[1], k[2])] @@ <<>>
SyncOutcome ==
    [k \in AcceptedURLs \X ScanNets |-> sync_scan(k[1], DomainOf[k[1]], k[2])] @@ <<>>

NewJob(mode, url) ==
    [mode |-> mode, url |-> url, state |-> IF mode = "task" THEN "PENDING" ELSE "SYNC",
     progress |-> 0, code |-> 0, value |-> NoResult, fetched |-> FALSE]

\* a scan whose end is never recorded
Ended_NeverRecorded(job, out) == job

\* the record of a scan that ended with outcome out
Ended(job, out) ==
    [job EXCEPT !.state = out.state, !.code = out.code, !.value = out.value,
                !.fetched = \E k \in 1..Len(out.events) : out.events[k][1] = "request"]

NoReply == [op |-> "none", via |-> "none", raw |-> <<>>, job |-> 0, code |-> 0, body |-> NoBody]
NoNet == [job |-> 0, events |-> <<>>]

(***************************************************************************)
(* The account tables (app.py User, RefreshToken).                         *)
(***************************************************************************)
\* a nullable column holds None or one value
None == <<>>
Some(x) == <<x>>
value(column) == column[1]
\* login: failed attempts that lock the account, and minutes of the lock
MAX_FAILED_ATTEMPTS == 5
LOCK_MINUTES == 30
\* forgot_password: minutes a reset token lives (timedelta(hours=1))
RESET_TOKEN_MINUTES == 60
\* generate_refresh_token: minutes a refresh token lives (timedelta(days=7))
REFRESH_TOKEN_MINUTES == 10080
\* passwords that pass validate_password_strength
Passwords == {"Passw0rd1", "Passw0rd2"}

\* one active account after signup, no token issued, at time 0.  Tokens are
\* named by the order secrets.token_urlsafe drew them: reset token k is the
\* k-th of forgot_password, refresh token k is row k of refresh_tokens.
\* hist is the history of the account, kept for the properties only:
\*   claimed  the failed password attempts since the last successful login
\*            or the last expiry of a lock, and the end of the lock they set
\*   amended  the same, a password reset also starting the count again
\*   reset  per reset token, when it was issued and how often and when it
\*          changed the password
\*   stale  the refresh tokens that existed at a successful password reset
NewUser ==
    [password |-> "Passw0rd1", is_active |-> TRUE,
     failed_login_attempts |-> 0, account_locked_until |-> None,
     reset_token |-> None, reset_token_expiry |-> None, reset_token_used_at |-> None,
     refresh_tokens |-> <<>>, now |-> 0,
     hist |-> [claimed |-> [fails |-> 0, lock |-> None],
              amended |-> [fails |-> 0, lock |-> None],
              reset |-> <<>>, stale |-> {}]]

ScanIdle ==
    /\ auth = NewUser
    /\ cache = <<>>
    /\ jobs = <<>>
    /\ db = <<>>
    /\ reply = NoReply
    /\ net = NoNet

\* the HTTP response of a request to /scan or /scan/status
Reply(op, via, raw, job, code, body) ==
    [op |-> op, via |-> via, raw |-> raw, job |-> job, code |-> code, body |-> body]

RECURSIVE setex(_, _)
setex(store, writes) ==
    IF writes = <<>> THEN store
    ELSE setex((writes[1][1] :> writes[1][2]) @@ store, Tail(writes))

\* POST /scan (app.py scan) for the raw URL raw, v being what validate_url_safe
\* returned and domain the host of the validated URL, when the scan is
\* refused, answered from the cache or queued
SubmitValidated(raw, v, domain, task_id) ==
    /\ net' = NoNet
    /\ IF raw = <<>>
       THEN /\ reply' = Reply("scan", "rejected", raw, 0, 400, [error |-> "URL required"])
            /\ UNCHANGED <<REDIS_AVAILABLE, cache, jobs, db, input, output, auth>>
       ELSE IF ~v.valid
       THEN /\ reply' = Reply("scan", "rejected", raw, 0, 400, [error |-> v.error])
            /\ UNCHANGED <<REDIS_AVAILABLE, cache, jobs, db, input, output, auth>>
       ELSE IF REDIS_AVAILABLE /\ domain \in DOMAIN cache
       THEN /\ reply' = Reply("scan", "cached", raw, 0, 200, json_loads(cache[domain]))
            /\ UNCHANGED <<REDIS_AVAILABLE, cache, jobs, db, input, output, auth>>
       ELSE /\ REDIS_AVAILABLE
            /\ Len(jobs) < MaxJobs
            /\ jobs' = Append(jobs, NewJob("task", v.url))
            /\ reply' = Reply("scan", "queued", raw, task_id, 202,
                              [task_id |-> task_id, status |-> "queued"])
            /\ UNCHANGED <<REDIS_AVAILABLE, cache, db, input, output, auth>>

Submit ==
    \E raw \in ScanURLs, ans \in ScanResolutions :
        SubmitValidated(raw, Validated[<<raw, ans>>],
                        DomainOf[Validated[<<raw, ans>>].url], Len(jobs) + 1)

\* POST /scan when Redis was down at start-up or delay() raises: the scan runs
\* inside the request and ends with outcome out
SyncScanned(raw, url, domain, out, scan_id) ==
    /\ ~(REDIS_AVAILABLE /\ domain \in DOMAIN cache)
    /\ jobs' = Append(jobs, Ended(NewJob("sync", url), out))
    /\ db' = db \o out.rows
    /\ reply' = Reply("scan", "sync", raw, scan_id, out.code, out.value)
    /\ net' = [job |-> scan_id, events |-> out.events]
    /\ UNCHANGED <<REDIS_AVAILABLE, cache, input, output, auth>>

SyncValidated(raw, v, nb) ==
    /\ v.valid
    /\ SyncScanned(raw, v.url, DomainOf[v.url], SyncOutcome[<<v.url, nb>>], Len(jobs) + 1)

SubmitSync ==
    /\ Len(jobs) < MaxJobs
    /\ \E raw \in ScanURLs \ {<<>>}, ans \in ScanResolutions, nb \in ScanNets :
        SyncValidated(raw, Validated[<<raw, ans>>], nb)

\* POST /scan with a JSON body that is no object (null): request.get_json()
\* gives None, data.get raises AttributeError and handle_exception answers 500
SubmitMalformed ==
    /\ reply' = Reply("scan", "error", <<>>, 0, 500, [error |-> "AttributeError"])
    /\ net' = NoNet
    /\ UNCHANGED <<REDIS_AVAILABLE, cache, jobs, db, input, output, auth>>

\* a worker takes the task: the first update_state
TaskStart(j) ==
    /\ jobs[j].state = "PENDING"
    /\ \E backend_ok \in BOOLEAN :
        jobs' = [jobs EXCEPT ![j] =
                    IF backend_ok
                    THEN [jobs[j] EXCEPT !.state = "PROGRESS", !.progress = 10]
                    ELSE Ended(jobs[j], Unbound)]
    /\ reply' = NoReply /\ net' = NoNet
    /\ UNCHANGED <<REDIS_AVAILABLE, cache, db, input, output, auth>>

\* the task ends with outcome out
TaskEnded(j, out) ==
    /\ jobs' = [jobs EXCEPT ![j] = Ended(jobs[j], out)]
    /\ cache' = setex(cache, out.writes)
    /\ db' = db \o out.rows
    /\ net' = [job |-> j, events |-> out.events]
    /\ reply' = NoReply
    /\ UNCHANGED <<REDIS_AVAILABLE, input, output, auth>>

\* the task runs to its return
TaskRun(j) ==
    /\ jobs[j].state = "PROGRESS"
    /\ \E nb \in ScanNets : TaskEnded(j, TaskOutcome[<<jobs[j].url, nb>>])

\* task_time_limit: the worker process of a running task is killed at the
\* hard limit, and Celery records the task as failed
TaskKill(j) ==
    /\ jobs[j].state = "PROGRESS"
    /\ jobs' = [jobs EXCEPT ![j] = [jobs[j] EXCEPT !.state = "FAILURE",
                                                   !.value = [exc |-> "TimeLimitExceeded"]]]
    /\ reply' = NoReply /\ net' = NoNet
    /\ UNCHANGED <<REDIS_AVAILABLE, cache, db, input, output, auth>>

Poll(j) ==
    /\ jobs[j].mode = "task"
    /\ reply' = Reply("status", "status", <<>>, j, 200, scan_status(jobs[j]))
    /\ net' = NoNet
    /\ UNCHANGED <<REDIS_AVAILABLE, cache, jobs, db, input, output, auth>>

\* the time to live of a cache entry (3600 s) runs out
Expire(d) ==
    /\ d \in DOMAIN cache
    /\ cache' = [k \in DOMAIN cache \ {d} |-> cache[k]]
    /\ reply' = NoReply /\ net' = NoNet
    /\ UNCHANGED <<REDIS_AVAILABLE, jobs, db, input, output, auth>>

ScanInit ==
    /\ REDIS_AVAILABLE \in BOOLEAN
    /\ ScanIdle

Init ==
    /\ ScanInit
    /\ input = [raw |-> <<>>, ans |-> GaiError]
    /\ output = [called |-> FALSE]

Next ==
    \/ Submit
    \/ SubmitSync
    \/ SubmitMalformed
    \/ \E j \in 1..Len(jobs) : TaskStart(j)
    \/ \E j \in 1..Len(jobs) : TaskRun(j)
    \/ \E j \in 1..Len(jobs) : TaskKill(j)
    \/ \E j \in 1..Len(jobs) : Poll(j)
    \/ \E d \in DOMAIN cache : Expire(d)

Spec == Init /\ [][Next]_vars

\* the worker is scheduled fairly: a queued task is taken by a worker, and a
\* running task returns or is killed at task_time_limit (every blocking call
\* of the task has a timeout)
WorkerFairness ==
    \A j \in 1..MaxJobs :
        /\ WF_vars(j <= Len(jobs) /\ TaskStart(j))
        /\ WF_vars(j <= Len(jobs) /\ (TaskRun(j) \/ TaskKill(j)))

SpecLive == Init /\ [][Next]_vars /\ WorkerFairness

(***************************************************************************)
(* Specification of one scan alone: a validated URL and a behaviour of the *)
(* world are drawn, and the step runs the scan as a task, as a synchronous *)
(* scan, and polls the task.                                               *)
(***************************************************************************)
ScanTargets == {HTTP_PFX \o <<"a">>, HTTPS_PFX \o <<"a", "/", "p">>}

ScanOutput(task, sync) ==
    [called |-> TRUE, task |-> task, sync |-> sync, poll |-> scan_status(task)]

InitScan ==
    /\ input \in [url : ScanTargets, nb : NetBehaviours]
    /\ output = [called |-> FALSE]
    /\ REDIS_AVAILABLE = TRUE
    /\ ScanIdle

RunScan ==
    /\ ~output.called
    /\ output' = ScanOutput(perform_security_scan(input.url, input.nb),
                            sync_scan(input.url, hostname(urlparse(input.url).netloc),
                                      input.nb))
    /\ UNCHANGED <<input, scan_vars>>

NextScan == RunScan

SpecScan == InitScan /\ [][NextScan]_vars

(***************************************************************************)
(* Specification of validate_url_safe alone: a raw URL and a getaddrinfo   *)
(* answer are drawn, and the call is made.                                 *)
(***************************************************************************)
NotCalled == [called |-> FALSE]

InitValidate ==
    /\ input \in [raw : RawURLs, ans : Resolutions]
    /\ output = NotCalled
    /\ REDIS_AVAILABLE = TRUE
    /\ ScanIdle

Validate ==
    /\ ~output.called
    /\ output' = [called |-> TRUE, ret |-> validate_url_safe(input.raw, input.ans)]
    /\ UNCHANGED <<input, scan_vars>>

NextValidate == Validate

SpecValidate == InitValidate /\ [][NextValidate]_vars

(***************************************************************************)
(* Specification of the analysis of one response alone: the headers of the *)
(* response, the final URL and the outcomes of the two TXT lookups are     *)
(* drawn, and the step builds the result of the scan from them.            *)
(***************************************************************************)
\* how many headers of a response differ from its profile
MaxVaried == 2

\* values a server sends in each header
HeaderValues(h) ==
    CASE h = "Strict-Transport-Security" ->
            {<<>>, <<"max-age=0">>, <<"max-age=300">>, <<"max-age=31536000">>,
             <<"max-age=31536000", ";", "includeSubDomains">>}
      [] h = "Content-Security-Policy" ->
            {<<>>, <<"default-src", "'self'">>, <<"default-src", "'self'", "'unsafe-inline'">>,
             <<"default-src", "*">>, <<"default-src", "*", ";", "script-src", "'self'">>}
      [] h = "X-Frame-Options" -> {<<>>, <<"deny">>, <<"allowall">>}
      [] h = "X-Content-Type-Options" -> {<<>>, <<"NoSniff">>, <<"sniff">>}
      [] h = "Referrer-Policy" -> {<<>>, <<"no-referrer">>, <<"unsafe-url">>}
      [] h = "Permissions-Policy" -> {<<>>, <<"geolocation=()">>}
      [] h = "Feature-Policy" -> {<<>>, <<"geolocation", "'none'">>}
      [] h = "X-XSS-Protection" -> {<<>>, <<"0">>, <<"1">>}
      [] h = "Server" -> {<<>>, <<"nginx">>}
      [] h = "X-Powered-By" -> {<<>>, <<"PHP">>}
      [] h = "Set-Cookie" ->
            {<<>>, <<"sid=1">>, <<"sid=1", ";", "Secure", ";", "HttpOnly", ";", "SameSite">>}

\* the header sets that differ from one of S in at most n headers
RECURSIVE Varied(_, _)
Varied(S, n) ==
    IF n = 0 THEN S
    ELSE Varied(S \cup UNION {{[f EXCEPT ![h] = v] : f \in S, v \in HeaderValues(h)} :
                                h \in HeaderNames},
                n - 1)

AnalyzedHeaders == Varied(HeaderProfiles, MaxVaried)
AnalyzedURLs == {HTTP_PFX \o <<"a">>, HTTPS_PFX \o <<"a">>}

InitAnalyze ==
    /\ input \in [headers : AnalyzedHeaders, url : AnalyzedURLs,
                   spf : TxtOutcomes, dmarc : TxtOutcomes]
    /\ output = NotCalled
    /\ REDIS_AVAILABLE = TRUE
    /\ ScanIdle

\* the analysis of perform_security_scan on the response: findings, score, report
Analyze ==
    /\ ~output.called
    /\ output' = [called |-> TRUE,
                  ret |-> BuildResult(input.url, <<"a">>, [headers |-> input.headers],
                                      input.url, input.spf, input.dmarc)]
    /\ UNCHANGED <<input, scan_vars>>

NextAnalyze == Analyze

SpecAnalyze == InitAnalyze /\ [][NextAnalyze]_vars

(***************************************************************************)
(* Specification of calculate_overall_score alone: a findings dict of up   *)
(* to MaxFindings entries and one more finding are drawn, and the step     *)
(* scores the dict without and with that finding.                          *)
(***************************************************************************)
MaxFindings == 4
ScoreValues == {0 - 30, 0 - 3, 0, 5, 20, 60}
\* an entry of the dict: a dict with a score, or a value that is no dict
ItemKinds ==
    {[counts |-> FALSE, score |-> 0]} \cup {[counts |-> TRUE, score |-> v] : v \in ScoreValues}
ScoredDicts == UNION {[1..n -> ItemKinds] : n \in 0..MaxFindings}

\* {**findings, key: finding} for a key the dict does not hold
with_finding(items, finding) == ((Len(items) + 1) :> finding) @@ items

InitScore ==
    /\ input \in [items : ScoredDicts,
                   extra : {k \in ItemKinds : k.counts /\ k.score >= 0}]
    /\ output = NotCalled
    /\ REDIS_AVAILABLE = TRUE
    /\ ScanIdle

Score ==
    /\ ~output.called
    /\ output' = [called |-> TRUE,
                  score |-> calculate_overall_score(input.items),
                  extended |-> calculate_overall_score(with_finding(input.items, input.extra))]
    /\ UNCHANGED <<input, scan_vars>>

NextScore == Score

SpecScore == InitScore /\ [][NextScore]_vars

(***************************************************************************)
(* The account endpoints: /auth/login, /auth/refresh, /auth/logout,        *)
(* /auth/forgot-password and /auth/reset-password, for the requests the    *)
(* rate limiter admits, each handler running as one transaction.           *)
(***************************************************************************)
\* a lock that never holds
is_locked_Never(a) == [locked |-> FALSE, user |-> a]

\* User.is_locked at time a.now: whether the lock holds, and the account as
\* the method leaves it
is_locked(a) ==
    IF a.account_locked_until # None
    THEN IF a.now < value(a.account_locked_until)
         THEN [locked |-> TRUE, user |-> a]
         ELSE [locked |-> FALSE,
               user |-> [a EXCEPT !.account_locked_until = None,
                                  !.failed_login_attempts = 0]]
    ELSE [locked |-> FALSE, user |-> a]

\* generate_refresh_token: a new row of refresh_tokens
generate_refresh_token(a) ==
    [a EXCEPT !.refresh_tokens =
        Append(@, [expires_at |-> a.now + REFRESH_TOKEN_MINUTES, revoked |-> FALSE])]

\* POST /auth/login with the account's email and a password: the status,
\* the account afterwards and the refresh token returned (0: none)
login(a, password) ==
    LET l == is_locked(a)
        u == l.user
        n == u.failed_login_attempts + 1
    IN  IF l.locked
        THEN [code |-> 403, user |-> a, token |-> 0]
        ELSE IF password # u.password
        THEN [code |-> 401, token |-> 0,
              user |-> [u EXCEPT !.failed_login_attempts = n,
                                 !.account_locked_until =
                                     IF n >= MAX_FAILED_ATTEMPTS
                                     THEN Some(u.now + LOCK_MINUTES) ELSE @]]
        ELSE IF ~u.is_active
        THEN [code |-> 403, user |-> a, token |-> 0]
        ELSE [code |-> 200, token |-> Len(u.refresh_tokens) + 1,
              user |-> generate_refresh_token(
                           [u EXCEPT !.failed_login_attempts = 0,
                                     !.account_locked_until = None])]

\* POST /auth/refresh with refresh token t: the status
refresh(a, t) ==
    IF t \notin DOMAIN a.refresh_tokens \/ a.refresh_tokens[t].revoked THEN 401
    ELSE IF a.now > a.refresh_tokens[t].expires_at THEN 401
    ELSE IF ~a.is_active THEN 401
    ELSE 200

\* POST /auth/logout with refresh token t, by the account's owner
logout(a, t) ==
    IF t \in DOMAIN a.refresh_tokens
    THEN [a EXCEPT !.refresh_tokens[t].revoked = TRUE]
    ELSE a

\* POST /auth/forgot-password for the account's email, t being the token
\* secrets.token_urlsafe draws
forgot_password(a, t) ==
    IF a.is_active
    THEN [a EXCEPT !.reset_token = Some(t),
                   !.reset_token_expiry = Some(a.now + RESET_TOKEN_MINUTES),
                   !.reset_token_used_at = None]
    ELSE a

\* a reset that leaves the token in place and unmarked
reset_password_KeepsToken(a, t, new_password) ==
    IF a.reset_token # Some(t) THEN [code |-> 400, user |-> a]
    ELSE IF value(a.reset_token_expiry) < a.now THEN [code |-> 400, user |-> a]
    ELSE [code |-> 200,
          user |-> [a EXCEPT !.password = new_password,
                             !.failed_login_attempts = 0,
                             !.account_locked_until = None,
                             !.refresh_tokens =
                                 [k \in DOMAIN @ |-> [@[k] EXCEPT !.revoked = TRUE]]]]

\* POST /auth/reset-password with reset token t and a password that passes
\* validate_password_strength: the status and the account afterwards
reset_password(a, t, new_password) ==
    IF a.reset_token # Some(t) THEN [code |-> 400, user |-> a]
    ELSE IF value(a.reset_token_expiry) < a.now THEN [code |-> 400, user |-> a]
    ELSE IF a.reset_token_used_at # None THEN [code |-> 400, user |-> a]
    ELSE [code |-> 200,
          user |-> [a EXCEPT !.password = new_password,
                             !.reset_token_used_at = Some(a.now),
                             !.reset_token = None,
                             !.failed_login_attempts = 0,
                             !.account_locked_until = None,
                             !.refresh_tokens =
                                 [k \in DOMAIN @ |-> [@[k] EXCEPT !.revoked = TRUE]]]]

\* History of login attempts: p is the pair (failed attempts counted, end of
\* the lock they set) before an attempt at time now, wrong telling whether
\* its password was wrong.  An attempt after the end of the lock starts
\* again from 0; an attempt during the lock counts for nothing.
track(p, now, wrong) ==
    LET q == IF p.lock # None /\ now >= value(p.lock) THEN [fails |-> 0, lock |-> None] ELSE p
    IN  IF q.lock # None THEN q
        ELSE IF wrong
        THEN [fails |-> q.fails + 1,
              lock |-> IF q.fails + 1 >= MAX_FAILED_ATTEMPTS THEN Some(now + LOCK_MINUTES) ELSE None]
        ELSE [fails |-> 0, lock |-> None]

NoLock == [fails |-> 0, lock |-> None]

\* the reply of an account endpoint to a request that presented a password
\* ("": none) and a token (0: none); a login names the refresh token it issued
AuthReply(op, password, token, code) ==
    Reply(op, "auth", [password |-> password, token |-> token], 0, code, NoBody)

Login(password) ==
    LET r == login(auth, password)
        wrong == password # auth.password
    IN  /\ r.code = 200 => Len(auth.refresh_tokens) < MaxLogins
        /\ auth' = [r.user EXCEPT
                       !.hist.claimed = track(@, auth.now, wrong),
                       !.hist.amended = track(@, auth.now, wrong)]
        /\ reply' = AuthReply("login", password, r.token, r.code)
        /\ UNCHANGED <<REDIS_AVAILABLE, cache, jobs, db, net, input, output>>

Refresh(t) ==
    /\ auth' = auth
    /\ reply' = AuthReply("refresh", "", t, refresh(auth, t))
    /\ UNCHANGED <<REDIS_AVAILABLE, cache, jobs, db, net, input, output>>

Logout(t) ==
    /\ auth' = logout(auth, t)
    /\ reply' = AuthReply("logout", "", t, 200)
    /\ UNCHANGED <<REDIS_AVAILABLE, cache, jobs, db, net, input, output>>

ForgotPassword ==
    LET t == Len(auth.hist.reset) + 1
    IN  /\ t <= MaxResets
        /\ auth' = [forgot_password(auth, t) EXCEPT
                       !.hist.reset = Append(@, [issued_at |-> auth.now, changed |-> 0,
                                                 changed_at |-> None])]
        /\ reply' = AuthReply("forgot_password", "", t, 200)
        /\ UNCHANGED <<REDIS_AVAILABLE, cache, jobs, db, net, input, output>>

ResetPassword(t, new_password) ==
    LET r == reset_password(auth, t, new_password)
    IN  /\ auth' = IF r.code = 200
                   THEN [r.user EXCEPT
                            !.hist.reset[t].changed = @ + 1,
                            !.hist.reset[t].changed_at = Some(auth.now),
                            !.hist.stale = @ \cup DOMAIN auth.refresh_tokens,
                            !.hist.amended = NoLock]
                   ELSE r.user
        /\ reply' = AuthReply("reset_password", new_password, t, r.code)
        /\ UNCHANGED <<REDIS_AVAILABLE, cache, jobs, db, net, input, output>>

\* time passes
Tick ==
    /\ auth.now + TickMinutes <= MaxNow
    /\ auth' = [auth EXCEPT !.now = @ + TickMinutes]
    /\ UNCHANGED <<REDIS_AVAILABLE, cache, jobs, db, net, reply, input, output>>

InitAuth ==
    /\ REDIS_AVAILABLE = TRUE
    /\ ScanIdle
    /\ input = <<>>
    /\ output = NotCalled

NextAuth ==
    \/ \E password \in Passwords : Login(password)
    \/ \E t \in 1..MaxLogins : Refresh(t)
    \/ \E t \in 1..MaxLogins : Logout(t)
    \/ ForgotPassword
    \/ \E t \in 1..MaxResets, new_password \in Passwords : ResetPassword(t, new_password)
    \/ Tick

SpecAuth == InitAuth /\ [][NextAuth]_vars

(***************************************************************************)
(* PROPERTIES                                                              *)
(***************************************************************************)
\* addresses that are private, loopback, link-local, multicast or reserved
\* (RFC 1918, 127/8, 169.254/16, fe80::/10, 224/4, 240/4)
UnsafeAddrs == {"10.0.0.1", "127.0.0.1", "169.254.169.254", "224.0.0.1",
                "240.0.0.1", "fe80::1%eth0"}
PublicAddrs == {"93.184.216.34", "2606:4700::1"}

\* the scheme a raw input carries: the text before its first "://", empty when it has none
RawScheme(raw) ==
    LET I == {i \in 1..Len(raw) : startswith(SubSeq(raw, i, Len(raw)), SEP)}
    IN IF I = {} THEN <<>> ELSE SubSeq(raw, 1, MinOf(I) - 1)

\* the host string of a raw input: what follows the scheme up to the first / ? #
RawAuthority(raw) ==
    LET sch == RawScheme(raw)
        rest == IF startswith(raw, sch \o SEP)
                THEN SubSeq(raw, Len(sch) + 4, Len(raw)) ELSE raw
        d == find(rest, {"/", "?", "#"}, 1)
    IN IF d = 0 THEN rest ELSE SubSeq(rest, 1, d - 1)

\* a name DNS can hold: letters, digits, dots and hyphens
IsDnsName(h) == h # <<>> /\ \A i \in 1..Len(h) : h[i] \in Letters \cup Digits \cup {".", "-"}

\* C1: whenever the answer of getaddrinfo holds at least one private,
\* loopback, link-local, multicast or reserved address, at any position and
\* whatever the other addresses are, validate_url_safe returns valid = false.
C1_UnsafeAddressRejected ==
    (output.called /\ input.ans.ok
       /\ \E i \in 1..Len(input.ans.ips) : input.ans.ips[i] \in UnsafeAddrs)
    => ~output.ret.valid

\* C1 witness: a public address first, 127.0.0.1 second, the lookup was made
\* and the URL was rejected.
C1_Witness ==
    /\ output.called
    /\ input.ans.ok
    /\ Len(input.ans.ips) = 2
    /\ input.ans.ips[1] \in PublicAddrs
    /\ input.ans.ips[2] = "127.0.0.1"
    /\ output.ret.lookups # <<>>
    /\ ~output.ret.valid

\* C2 (as claimed): a raw input whose host string contains '@' is rejected,
\* and no name was handed to getaddrinfo for it.
C2_AtSignRejectedBeforeDns ==
    (output.called /\ contains(RawAuthority(input.raw), "@"))
    => (~output.ret.valid /\ output.ret.lookups = <<>>)

\* C3 (as claimed): a raw input carrying a scheme other than http or https is
\* rejected, and http:// is prepended only to input that has no scheme.
C3_OtherSchemeRejected ==
    output.called =>
        /\ RawScheme(input.raw) \notin {<<>>, S_http, S_https} => ~output.ret.valid
        /\ output.ret.url # input.raw => RawScheme(input.raw) = <<>>

\* C4: an http or https URL whose hostname is a DNS name that resolves, and
\* only to public addresses, is accepted: valid = true, the URL is returned
\* as normalized URL and there is no error reason.
C4_PublicHostAccepted ==
    (/\ output.called
     /\ startswith(input.raw, HTTP_PFX) \/ startswith(input.raw, HTTPS_PFX)
     /\ ~urlparse(input.raw).raises
     /\ IsDnsName(hostname(urlparse(input.raw).netloc))
     /\ input.ans.ok
     /\ \A i \in 1..Len(input.ans.ips) : input.ans.ips[i] \in PublicAddrs)
    => (output.ret.valid /\ output.ret.url = input.raw /\ output.ret.error = NoError)

\* C4 witness: https://a/p resolving to an IPv4 and an IPv6 public address
\* was accepted.
C4_Witness ==
    /\ output.called
    /\ input.raw = HTTPS_PFX \o <<"a", "/", "p">>
    /\ input.ans = [ok |-> TRUE, ips |-> <<"93.184.216.34", "2606:4700::1">>]
    /\ output.ret.valid

\* a hop whose host resolves to at least one unsafe address
HopUnsafe(h) == h.ans.ok /\ \E i \in 1..Len(h.ans.ips) : h.ans.ips[i] \in UnsafeAddrs

\* the positions of the requests sent in a list of network events
Requests(events) == {k \in 1..Len(events) : events[k][1] = "request"}

\* every request sent is preceded at once by the check of its own host, the
\* check found the host safe, and the addresses of that hop are all public
CheckedBeforeSent(events, hops) ==
    \A k \in Requests(events) :
        /\ k > 1
        /\ events[k - 1] = <<"resolve", events[k][2], "safe">>
        /\ hops[k \div 2].ans.ok
        /\ ~HopUnsafe(hops[k \div 2])

\* C5: in a fetch that follows redirects, every request, the first included,
\* is sent only after the check of its hop's host found only public
\* addresses; when a hop resolves to an unsafe address no request is sent to
\* it (only the hops before it were requested) and the worker's scan ends
\* with the classification "Connection error".  The classification is that of
\* perform_security_scan; the order of check and request holds for the
\* synchronous scan as well.
C5_EveryHopChecked ==
    output.called =>
        LET hops == input.nb.hops
            last == hops[Len(hops)]
        IN /\ CheckedBeforeSent(output.task.events, hops)
           /\ CheckedBeforeSent(output.sync.events, hops)
           /\ HopUnsafe(last) =>
                /\ Cardinality(Requests(output.sync.events)) = Len(hops) - 1
                /\ input.nb.backend_ok =>
                     /\ Cardinality(Requests(output.task.events)) = Len(hops) - 1
                     /\ output.task.events[Len(output.task.events)][1] = "resolve"
                     /\ "error" \in DOMAIN output.task.value
                     /\ output.task.value.error[1] = "Connection error"

\* C5 witness: the first hop (host a) was public and was requested, its
\* redirect led to host b resolving to 127.0.0.1, b was never requested and
\* the task returned a connection error.
C5_Witness ==
    /\ output.called
    /\ input.nb.backend_ok
    /\ Len(input.nb.hops) = 2
    /\ input.nb.hops[2].ans = [ok |-> TRUE, ips |-> <<"127.0.0.1">>]
    /\ output.task.events = << <<"resolve", <<"a">>, "safe">>, <<"request", <<"a">>, "sent">>,
                               <<"resolve", <<"b">>, "blocked">> >>
    /\ output.task.value.error[1] = "Connection error"

\* the last hop of the trace answered with a response whose Content-Length
\* is a number above MAX_RESPONSE_SIZE
DeclaresTooLarge(nb) ==
    LET last == nb.hops[Len(nb.hops)]
    IN /\ last.ans.ok /\ ~HopUnsafe(last)
       /\ last.o.kind = "final"
       /\ last.o.response.content_length.kind = "int"
       /\ last.o.response.content_length.n > MAX_RESPONSE_SIZE

\* C6: when the response declares a Content-Length above MAX_RESPONSE_SIZE,
\* perform_security_scan ends with the error "Response too large", the body
\* is never read, and the scan yields no findings, no score, no cache entry
\* and no row.
C6_DeclaredTooLarge ==
    (output.called /\ input.nb.backend_ok /\ DeclaresTooLarge(input.nb))
    => /\ output.task.value.error = <<"Response too large", "">>
       /\ \A k \in 1..Len(output.task.events) : output.task.events[k][1] # "read"
       /\ DOMAIN output.task.value \cap {"score", "findings", "report"} = {}
       /\ output.task.writes = <<>>
       /\ output.task.rows = <<>>

\* C6 witness: a direct response declaring MAX_RESPONSE_SIZE + 1 bytes was
\* received (resolve, request) and the task returned "Response too large".
C6_Witness ==
    /\ output.called
    /\ input.nb.backend_ok
    /\ Len(input.nb.hops) = 1
    /\ DeclaresTooLarge(input.nb)
    /\ Len(output.task.events) = 2
    /\ output.task.value.error[1] = "Response too large"

\* the host of a URL posted to /scan, and of the URL a scan was accepted for
ScanHost(url) ==
    IF url \in {<<"a">>, HTTP_PFX \o <<"a">>, HTTPS_PFX \o <<"a", "/", "p">>} THEN <<"a">>
    ELSE IF url \in {<<"b">>, HTTP_PFX \o <<"b">>} THEN <<"b">>
    ELSE <<>>

\* C7 (as claimed): of two requests for the same domain, the second arriving
\* while the scan of the first is still queued or running, the second issues
\* no fetch of its own.
C7_SecondIssuesNoFetch ==
    \A i, j \in 1..Len(jobs) :
        (/\ i < j
         /\ ScanHost(jobs[i].url) = ScanHost(jobs[j].url)
         /\ jobs[i].state \in {"PENDING", "PROGRESS"})
        => ~jobs[j].fetched

\* C8: a request for a validated URL whose host has a cache entry is answered
\* 200 with exactly the stored result; the step issues no fetch, adds no task,
\* inserts no row and leaves the cache as it was.  The entry is found under
\* the host alone, whatever the scheme and the path of the URL.
C8_CacheHitReturnsStored ==
    [][(/\ reply'.op = "scan"
        /\ reply'.code # 400
        /\ ScanHost(reply'.raw) \in DOMAIN cache)
       => (/\ reply'.code = 200
           /\ reply'.body = cache[ScanHost(reply'.raw)][2]
           /\ net'.events = <<>>
           /\ jobs' = jobs
           /\ db' = db
           /\ cache' = cache)]_vars

\* C8 witness: the entry written by the scan of http://a answered the request
\* for https://a/p.
C8_Witness ==
    /\ reply.via = "cached"
    /\ reply.raw = HTTPS_PFX \o <<"a", "/", "p">>
    /\ reply.body.url = HTTP_PFX \o <<"a">>
    /\ <<"a">> \in DOMAIN cache
    /\ cache[<<"a">>][2] = reply.body

\* every cache value is the JSON text of a result with a score, a report and
\* findings, without error, and its domain is the key
CacheComplete ==
    \A d \in DOMAIN cache :
        /\ cache[d][1] = "json"
        /\ {"url", "domain", "score", "report", "findings"} \subseteq DOMAIN cache[d][2]
        /\ "error" \notin DOMAIN cache[d][2]
        /\ cache[d][2].domain = d

\* the scan of this record ended in an error or was killed
ScanFailed(job) ==
    \/ job.state = "FAILURE"
    \/ job.state \in {"SUCCESS", "SYNC"} /\ "error" \in DOMAIN job.value

\* C9: in every state every cache value is a complete successful result
\* whose domain is its key, and a step in which a scan ends in an error
\* (timeout, TLS, connection, response too large, generic) leaves the cache
\* as it was.
C9_CacheHoldsOnlyResults ==
    [][/\ CacheComplete'
       /\ \A j \in 1..Len(jobs') :
            ((j > Len(jobs) \/ jobs'[j] # jobs[j]) /\ ScanFailed(jobs'[j]))
            => cache' = cache]_vars

\* C9 witness: a task ended with "Response too large" while the cache held the
\* result of another scan.
C9_Witness ==
    /\ \E j \in 1..Len(jobs) :
        /\ jobs[j].state = "SUCCESS"
        /\ "error" \in DOMAIN jobs[j].value
        /\ jobs[j].value.error[1] = "Response too large"
        /\ net.job = j
    /\ <<"a">> \in DOMAIN cache
    /\ CacheComplete

\* C10 (as claimed): the poll of a task whose scan ended in a classified error
\* answers status "failed".
C10_FailedScanPollsFailed ==
    (output.called /\ "error" \in DOMAIN output.task.value)
    => output.poll.status = "failed"

\* the status a poll of task j answers in the current state
PollStatus(job) == scan_status(job).status
\* the place of a status in the order queued, in_progress, complete or failed
StatusRank(status) ==
    CASE status = "queued" -> 1
      [] status = "in_progress" -> 2
      [] OTHER -> 3

\* C11 (as claimed): the status a poll of a task answers is one of queued,
\* in_progress, complete and failed; from one state to the next it never moves
\* back in the order queued, in_progress, complete or failed; and once it is
\* complete or failed the answer of the poll stays the same.
C11_PollStatusSequence ==
    [][\A j \in 1..Len(jobs) :
        jobs[j].mode = "task" =>
            /\ PollStatus(jobs'[j]) \in {"queued", "in_progress", "complete", "failed"}
            /\ StatusRank(PollStatus(jobs'[j])) >= StatusRank(PollStatus(jobs[j]))
            /\ PollStatus(jobs[j]) \in {"complete", "failed"}
                => scan_status(jobs'[j]) = scan_status(jobs[j])]_vars

\* C12: with a fairly scheduled worker every queued task comes to a state in
\* which its poll answers complete (with the result or the classified error
\* dict) or failed, and every synchronous scan has returned its result or
\* its failure when the request is answered: no accepted scan stays
\* non-terminal forever.
C12_AcceptedScanEnds ==
    /\ [](\A j \in 1..Len(jobs) :
            jobs[j].mode = "sync" => (jobs[j].state = "SYNC" /\ jobs[j].value # NoResult))
    /\ \A j \in 1..MaxJobs :
            (j <= Len(jobs) /\ jobs[j].mode = "task")
            ~> (j <= Len(jobs) /\ PollStatus(jobs[j]) \in {"complete", "failed"})

\* C12 witness: a task that was killed at the time limit is polled and the
\* poll answers failed, while another task has returned a result with a score.
C12_Witness ==
    /\ reply.op = "status"
    /\ reply.body.status = "failed"
    /\ reply.body.error = "TimeLimitExceeded"
    /\ \E j \in 1..Len(jobs) :
        jobs[j].mode = "task" /\ jobs[j].state = "SUCCESS" /\ "score" \in DOMAIN jobs[j].value

\* C13 (as claimed): a request to /scan whose URL is missing or empty, or
\* whose URL validate_url_safe rejects, is answered 400 with the reason of the
\* rejection, and the step adds no task, issues no fetch, leaves the cache as
\* it was and inserts no row.
C13_RejectedWithoutEffect ==
    [][(/\ reply'.op = "scan"
        /\ reply'.raw = <<>> \/ reply'.via = "rejected")
       => (/\ reply'.code = 400
           /\ "error" \in DOMAIN reply'.body
           /\ jobs' = jobs
           /\ net'.events = <<>>
           /\ cache' = cache
           /\ db' = db)]_vars

\* the parts of an outcome the two paths are compared by
SameResult(a, b) ==
    /\ DOMAIN a = DOMAIN b
    /\ "score" \in DOMAIN a => (a.score = b.score /\ a.report = b.report /\ a.findings = b.findings)
    /\ "error" \in DOMAIN a => a.error[1] = b.error[1]

\* C14 (as claimed): for the same validated URL and the same behaviour of the
\* network, the synchronous scan and the worker task end in the same result
\* (score, flat report and findings, or the same class of failure), write the
\* same cache entries and insert the same rows.
C14_SyncEqualsWorker ==
    (output.called /\ input.nb.backend_ok /\ input.nb.redis_ok /\ input.nb.db_ok)
    => /\ SameResult(output.task.value, output.sync.value)
       /\ output.task.writes = output.sync.writes
       /\ output.task.rows = output.sync.rows

\* a result holds an error that is not empty and no score, or a score and no error
WellFormedResult(v) ==
    /\ ("error" \in DOMAIN v) # ("score" \in DOMAIN v)
    /\ "error" \in DOMAIN v => v.error[1] # ""

\* C18: the result a task returns (and Celery stores for its identifier), the
\* result the synchronous scan answers with and every value written to the
\* cache hold either an error and no score, or a score and no error.
C18_ErrorOrScore ==
    output.called =>
        /\ output.task.state = "SUCCESS" => WellFormedResult(output.task.value)
        /\ WellFormedResult(output.sync.value)
        /\ \A k \in 1..Len(output.task.writes) :
                WellFormedResult(json_loads(output.task.writes[k][2]))

\* C18 witness: the task ended in the TLS error dict, without a score, and so
\* did the synchronous scan with its own error.
C18_Witness ==
    /\ output.called
    /\ output.task.state = "SUCCESS"
    /\ "error" \in DOMAIN output.task.value
    /\ output.task.value.error[1] = "SSL/TLS error"
    /\ "score" \notin DOMAIN output.task.value
    /\ output.sync.code = 500

\* out is the outcome of a scan during which the insert failed, saved the
\* outcome of the same scan with an insert that succeeds
SaveFailureSwallowed(out, saved) ==
    "score" \in DOMAIN saved.value
    => /\ "score" \in DOMAIN out.value
       /\ "error" \notin DOMAIN out.value
       /\ out.value.score = saved.value.score
       /\ out.state = saved.state
       /\ out.code = saved.code
       /\ out.writes = saved.writes

\* C20: a scan that succeeds when the insert of its row succeeds still ends
\* with its result and score when the insert fails, as a task (polled as
\* complete) and as a synchronous scan (answered 200), and it writes the same
\* cache entry.
C20_SaveFailureSwallowed ==
    (output.called /\ ~input.nb.db_ok)
    => /\ SaveFailureSwallowed(output.task,
                               perform_security_scan(input.url, [input.nb EXCEPT !.db_ok = TRUE]))
       /\ SaveFailureSwallowed(output.sync,
                               sync_scan(input.url, hostname(urlparse(input.url).netloc),
                                         [input.nb EXCEPT !.db_ok = TRUE]))
       /\ "score" \in DOMAIN output.task.value => output.poll.status = "complete"

\* C20 witness: the insert failed, the task returned its result with a score
\* and a note of the failure, inserted no row and wrote the cache entry.
C20_Witness ==
    /\ output.called
    /\ ~input.nb.db_ok
    /\ "score" \in DOMAIN output.task.value
    /\ "db_error" \in DOMAIN output.task.value
    /\ output.task.rows = <<>>
    /\ Len(output.task.writes) = 1
    /\ output.sync.code = 200
    /\ output.sync.rows = <<>>

\* a total brought into the range 0..100
Clamped(total) == IF total < 0 THEN 0 ELSE IF total > 100 THEN 100 ELSE total

\* the sum of the score fields of all findings of a result: the header
\* findings, the cookie finding and the two DNS findings
FindingScores(findings) ==
    SumScores(ScoreItems(findings.headers), DOMAIN findings.headers)
    + findings.cookies.score + findings.dns.spf.score + findings.dns.dmarc.score

\* C15 (as claimed): the score of a scan is 50 plus the score fields of all
\* its findings (header findings, cookie finding, both DNS findings), brought
\* into the range 0..100.
C15_ScoreSumsAllFindings ==
    output.called => output.ret.score = Clamped(50 + FindingScores(output.ret.findings))

\* C16: calculate_overall_score returns an integer from 0 to 100 for every
\* findings dict, also when the scores sum below -50 or above 50.
C16_ScoreInRange ==
    output.called => (output.score \in 0..100 /\ output.extended \in 0..100)

\* C16 witness: four findings of -30 each are scored 0, and with a finding of
\* 60 added the score is still within the range.
C16_Witness ==
    /\ output.called
    /\ Len(input.items) = 4
    /\ \A k \in 1..4 : input.items[k] = [counts |-> TRUE, score |-> 0 - 30]
    /\ input.extra.score = 60
    /\ output.score = 0
    /\ output.extended = 0

\* C17: adding a finding with a score of 0 or more under a key the findings
\* do not hold never lowers the score.
C17_ScoreMonotonic ==
    output.called => output.extended >= output.score

\* C17 witness: a finding of 5 added to findings scored 45 gives 50.
C17_Witness ==
    /\ output.called
    /\ input.extra.score = 5
    /\ output.score = 45
    /\ output.extended = 50

\* the finding a flag of the flat report is taken from
FlagFinding(findings, flag) ==
    CASE flag = "https" -> findings.headers.https
      [] flag = "hsts" -> findings.headers.hsts
      [] flag = "content_security_policy" -> findings.headers.csp
      [] flag = "x_frame_options" -> findings.headers.x_frame_options
      [] flag = "x_content_type_options" -> findings.headers.x_content_type_options
      [] flag = "referrer_policy" -> findings.headers.referrer_policy
      [] flag = "permissions_policy" -> findings.headers.permissions_policy
      [] flag = "dns_spf" -> findings.dns.spf
      [] flag = "dns_dmarc" -> findings.dns.dmarc

\* C19 (as claimed): a flag of the flat report other than server_header is
\* true only when its finding earns a positive score, and server_header is
\* true exactly when the response has a Server header.
C19_FlagsMeanSecure ==
    output.called =>
        /\ \A flag \in DOMAIN output.ret.report \ {"server_header"} :
                output.ret.report[flag] => FlagFinding(output.ret.findings, flag).score > 0
        /\ output.ret.report.server_header <=> input.headers["Server"] # <<>>

\* out is the outcome of a scan, found the outcome of the same scan with both
\* TXT records found
DnsFailureHarmless(out, found) ==
    /\ out.state = found.state
    /\ out.code = found.code
    /\ ("score" \in DOMAIN out.value) <=> ("score" \in DOMAIN found.value)

\* C21: a TXT lookup that fails gives for its record the finding present =
\* false, severity medium, score 0; the other record is still looked up and
\* reported as found when it is there; and the scan ends as it ends when both
\* records are found, with a score whenever that scan has one.
C21_DnsFailureNeverFails ==
    (output.called /\ "failed" \in {input.nb.spf, input.nb.dmarc})
    => /\ DnsFailureHarmless(output.task,
                             perform_security_scan(input.url,
                                 [input.nb EXCEPT !.spf = "found", !.dmarc = "found"]))
       /\ "findings" \in DOMAIN output.task.value =>
            LET dns == output.task.value.findings.dns
            IN /\ input.nb.spf = "failed" => dns.spf = Finding(FALSE, 0, "medium")
               /\ input.nb.dmarc = "failed" => dns.dmarc = Finding(FALSE, 0, "medium")
               /\ input.nb.spf = "found" => dns.spf = Finding(TRUE, 5, "pass")
               /\ input.nb.dmarc = "found" => dns.dmarc = Finding(TRUE, 5, "pass")

\* C21 witness: the SPF lookup failed, the DMARC record was found, and the
\* task returned a result with a score.
C21_Witness ==
    /\ output.called
    /\ input.nb.spf = "failed"
    /\ input.nb.dmarc = "found"
    /\ "score" \in DOMAIN output.task.value
    /\ ~output.task.value.findings.dns.spf.present
    /\ output.task.value.findings.dns.dmarc.present

\* C22 (as claimed): the HSTS finding is pass/15 for max-age >= 31536000 with
\* includeSubDomains, info/10 for max-age >= 31536000 without it, warning/5
\* for a smaller max-age above 0, and critical/0 when the header is absent or
\* its max-age is 0, missing or unparseable.
C22_HstsTable ==
    output.called =>
        LET hsts == input.headers["Strict-Transport-Security"]
            f == output.ret.findings.headers.hsts
        IN IF hsts # <<>> /\ max_age_of(hsts) >= 31536000 /\ has(hsts, "includeSubDomains")
           THEN f.severity = "pass" /\ f.score = 15
           ELSE IF hsts # <<>> /\ max_age_of(hsts) >= 31536000
           THEN f.severity = "info" /\ f.score = 10
           ELSE IF hsts # <<>> /\ max_age_of(hsts) > 0
           THEN f.severity = "warning" /\ f.score = 5
           ELSE f.severity = "critical" /\ f.score = 0

\* C23 (as claimed): the CSP finding is high/0 without the header, pass/20
\* for a policy without 'unsafe-inline', 'unsafe-eval' and a wildcard source,
\* and warning/10 for a policy with one of them, the wildcard source standing
\* anywhere in the policy.
C23_CspTable ==
    output.called =>
        LET csp == input.headers["Content-Security-Policy"]
            f == output.ret.findings.headers.csp
        IN IF csp = <<>> THEN f.severity = "high" /\ f.score = 0
           ELSE IF has(csp, "'unsafe-inline'") \/ has(csp, "'unsafe-eval'") \/ has(csp, "*")
           THEN f.severity = "warning" /\ f.score = 10
           ELSE f.severity = "pass" /\ f.score = 20

\* C24 (as claimed): the Referrer-Policy finding is pass/5 for a header that
\* names one of the secure policies and low/0 for a header that names none
\* and for an absent header.
C24_ReferrerTable ==
    output.called =>
        LET rp == input.headers["Referrer-Policy"]
            f == output.ret.findings.headers.referrer_policy
        IN IF rp # <<>> /\ has_secure_policy(rp)
           THEN f.severity = "pass" /\ f.score = 5
           ELSE f.severity = "low" /\ f.score = 0

Severities == {"pass", "info", "low", "medium", "warning", "high", "critical"}

\* C25 (as claimed): every header finding, the cookie finding and both DNS
\* findings carry a severity, and it is one of pass, info, low, medium,
\* warning, high, critical.
C25_SeverityEnum ==
    output.called =>
        LET f == output.ret.findings
        IN /\ \A k \in DOMAIN f.headers : f.headers[k].severity \in Severities
           /\ "severity" \in DOMAIN f.cookies
           /\ f.cookies.severity \in Severities
           /\ f.dns.spf.severity \in Severities
           /\ f.dns.dmarc.severity \in Severities

\* the error class of a task that returned an error dict
ErrorClass(out) == out.value.error[1]
TimeoutClass == "Request timeout - site took too long to respond"

\* C26 (as claimed): a fetch that ends in a timeout, a connection error or
\* the rejection of an unsafe address was attempted once: the request that
\* failed was never sent again.
C26_FailureNotRetried ==
    (/\ output.called
     /\ input.nb.backend_ok
     /\ "error" \in DOMAIN output.task.value
     /\ ErrorClass(output.task) \in {TimeoutClass, "Connection error"})
    => \A k \in 1..Len(output.task.events) : output.task.events[k][1] # "retry"

\* the last hop of the fetch was requested and failed for a timeout: of the
\* connection, of the wait for the response, or of the read of the body
FetchTimedOut(hops, events) ==
    LET last == hops[Len(hops)]
    IN \/ /\ last.o.kind = "exc"
          /\ last.o.exc \in {"ConnectTimeout", "ConnectionError:ReadTimeoutError"}
          /\ AdapterVerdict(last.ans) = "safe"
       \/ /\ last.o.kind = "final"
          /\ last.o.response.stalls
          /\ events # <<>>
          /\ events[Len(events)][1] = "read"

\* the last hop of the fetch was requested and failed in the TLS handshake
FetchTlsFailed(hops) ==
    LET last == hops[Len(hops)]
    IN last.o.kind = "exc" /\ last.o.exc = "SSLError" /\ AdapterVerdict(last.ans) = "safe"

\* C27 (as claimed): a task that returns an error reports one of the classes
\* timeout, SSL/TLS error, connection error, response too large and generic
\* failure; a failed TLS handshake is reported as SSL/TLS error; and a fetch
\* that timed out is reported as timeout.
C27_FailureClasses ==
    (output.called /\ input.nb.backend_ok)
    => /\ "error" \in DOMAIN output.task.value =>
            ErrorClass(output.task) \in {TimeoutClass, "SSL/TLS error", "Connection error",
                                         "Response too large", "Scan failed"}
       /\ FetchTlsFailed(input.nb.hops) =>
            ("error" \in DOMAIN output.task.value /\ ErrorClass(output.task) = "SSL/TLS error")
       /\ FetchTimedOut(input.nb.hops, output.task.events) =>
            ("error" \in DOMAIN output.task.value /\ ErrorClass(output.task) = TimeoutClass)

\* C28 (as claimed): whichever step of perform_security_scan fails, the task
\* returns a dict with the url and the domain and either the result or an
\* error; it never ends by an exception.
C28_TaskNeverRaises ==
    output.called =>
        /\ output.task.state = "SUCCESS"
        /\ {"url", "domain"} \subseteq DOMAIN output.task.value
        /\ ("score" \in DOMAIN output.task.value) \/ ("error" \in DOMAIN output.task.value)

(***************************************************************************)
(* The account: lockout and password reset (SpecAuth).                     *)
(***************************************************************************)
\* the lock that the history p of login attempts set is the account's lock
LockSet(p) == p.lock # None => auth.account_locked_until = p.lock

\* a login attempt with password, p being the history of attempts before it:
\* refused with 403 and not counted while the lock of p holds; a successful
\* login leaves the counter at 0 and no lock; the first attempt after the end
\* of the lock is judged with a counter of 0
LockoutStep(p, password) ==
    LET held == p.lock # None /\ auth.now < value(p.lock)
        over == p.lock # None /\ auth.now >= value(p.lock)
    IN  /\ held => /\ reply'.code = 403
                   /\ auth'.failed_login_attempts = auth.failed_login_attempts
                   /\ auth'.account_locked_until = auth.account_locked_until
        /\ reply'.code = 200 => /\ auth'.failed_login_attempts = 0
                                /\ auth'.account_locked_until = None
        /\ over /\ password # auth.password =>
               /\ reply'.code = 401
               /\ auth'.failed_login_attempts = 1
        /\ over /\ password = auth.password => reply'.code = 200

====
